---------------------------- MODULE Spec2Model ----------------------------
(***************************************************************************)
(* State-machine model of stream-buffer.c: a byte stream is read from      *)
(* standard input, queued in a ring buffer and written to standard output  *)
(* one byte per SIGALRM, the timer period being adapted to the input rate. *)
(*                                                                         *)
(* The process is single-threaded; the only asynchrony is the SIGALRM      *)
(* handler, which sets received_signal and makes a blocked read() return   *)
(* EINTR (the handler is installed without SA_RESTART).  The model splits  *)
(* the code exactly at the places where the arrival of the signal makes a  *)
(* difference: before a getchar() is issued, while it is blocked, and      *)
(* after it has returned.                                                  *)
(***************************************************************************)
EXTENDS Integers, Sequences, FiniteSets, TLC

VARIABLES
    arg,              \* argv[1]: [given, text] (text a sequence of characters)
    regular,          \* S_ISREG(stdin)
    input,            \* every byte the source will ever deliver
    avail,            \* how many of them have arrived so far
    closed,           \* the source has signalled end-of-stream
    rd,               \* bytes consumed by getchar()
    rb,               \* the ring buffer
    out,              \* bytes written (and flushed) to stdout
    pc,               \* position of the process
    c,                \* the local c of the running loop
    interval,         \* the local interval of main / stream_data
    count,            \* the local count of read_one_second
    bytes_read,       \* the local bytes_read of estimate_input_rate
    bytes_buffered,   \* the local bytes_buffered of stream_data
    received_signal,  \* the global flag set by handle()
    errno,            \* "OK", "EINTR" or "EINVAL"
    timer,            \* ITIMER_REAL: [armed, value, period]
    status,           \* "running", "exit0", "exit1" or "abort"
    usage,            \* the usage diagnostic has been printed
    ticks,            \* SIGALRM deliveries so far
    hist,             \* history: phases visited, last rescale, end-of-stream
    limits,           \* how far the run is followed: [ticks, lost, ends]
    u_call,           \* function-level checks: the call under test
    u_ret             \* function-level checks: its outcome

vars == <<arg, regular, input, avail, closed, rd, rb, out, pc, c, interval,
          count, bytes_read, bytes_buffered, received_signal, errno, timer,
          status, usage, ticks, hist, limits, u_call, u_ret>>

progVars == <<arg, regular, input, avail, closed, rd, rb, out, pc, c, interval,
              count, bytes_read, bytes_buffered, received_signal, errno, timer,
              status, usage, ticks, hist, limits>>

---------------------------------------------------------------------------
(* Bounds of the model *)

\* longest short input
MaxInput == 3
\* SIGALRM deliveries explored in one run
MaxTicks == 5
\* bytes of the long input beyond DELAY_SIZE
LongExtra == 6
\* SIGALRM deliveries that go unanswered in the run with the long backlog
MaxLost == 1

---------------------------------------------------------------------------
(* Program constants *)

DELAY_SIZE == 1024
EOF == -1
\* the 1e6 / 1e06 literals of the source
Million == 1000000
\* the largest argument parse_argument_for_interval accepts silently
ArgMax == 999999
\* the largest value setitimer() accepts in a tv_usec
MaxUsec == Million - 1

\* float literals, as mantissa and binary exponent: value = m / 2^s
\* (float)1.05 = 8808038 / 2^23, (float).95 = 15938355 / 2^24
F105 == [m |-> 8808038, s |-> 23]
F095 == [m |-> 15938355, s |-> 24]

---------------------------------------------------------------------------
(* ring-buffer.h: a FIFO of bytes; rb_pop of an empty buffer gives EOF *)

rb_create == << >>
rb_xpush(q, b) == Append(q, b)
rb_pop(q) == IF q = << >> THEN [val |-> EOF, rb |-> q]
             ELSE [val |-> Head(q), rb |-> Tail(q)]

---------------------------------------------------------------------------
(* strtoll(arg, &end, 0) *)

DigitVal(ch) ==
    CASE ch = "0" -> 0 [] ch = "1" -> 1 [] ch = "2" -> 2 [] ch = "3" -> 3
      [] ch = "4" -> 4 [] ch = "5" -> 5 [] ch = "6" -> 6 [] ch = "7" -> 7
      [] ch = "8" -> 8 [] ch = "9" -> 9 [] ch = "a" -> 10 [] ch = "b" -> 11
      [] ch = "c" -> 12 [] ch = "d" -> 13 [] ch = "e" -> 14 [] ch = "f" -> 15
      [] OTHER -> 99

IsDigit(ch, base) == DigitVal(ch) < base

RECURSIVE ParseDigits(_, _, _, _)
\* digits of s from position i in the given base; [val, end]: the value and
\* the position of the first character not consumed
ParseDigits(s, i, base, acc) ==
    IF i <= Len(s) /\ IsDigit(s[i], base)
    THEN ParseDigits(s, i + 1, base, acc * base + DigitVal(s[i]))
    ELSE [val |-> acc, end |-> i]

strtoll(s) ==
    LET neg == Len(s) >= 1 /\ s[1] = "-"
        i0  == IF Len(s) >= 1 /\ s[1] \in {"-", "+"} THEN 2 ELSE 1
        hex == /\ Len(s) >= i0 + 2 /\ s[i0] = "0" /\ s[i0 + 1] = "x"
               /\ IsDigit(s[i0 + 2], 16)
        oct == ~hex /\ Len(s) >= i0 /\ s[i0] = "0"
        base == IF hex THEN 16 ELSE IF oct THEN 8 ELSE 10
        p   == ParseDigits(s, IF hex THEN i0 + 2 ELSE i0, base, 0)
        any == p.end > (IF hex THEN i0 + 2 ELSE i0)
    IN  IF any
        THEN [val |-> IF neg THEN 0 - p.val ELSE p.val, end |-> p.end]
        ELSE [val |-> 0, end |-> 1]

\* parse_argument_for_interval: the value returned and whether the usage
\* text was printed; the function returns in both cases
parse_argument_for_interval(s) ==
    LET p == strtoll(s)
    IN  [rv    |-> p.val,
         usage |-> (p.val < 0 \/ p.val > ArgMax \/ p.end <= Len(s))]

---------------------------------------------------------------------------
(* setitimer, and the float product of reset_timer *)

NoTimer == [armed |-> FALSE, value |-> 0, period |-> 0]

\* set_timer: setitimer(ITIMER_REAL, {interval, value}); a tv_usec outside
\* 0..999999 makes setitimer fail with EINVAL and leaves the timer as it was
\* (the return value is ignored); a zero value disarms it
set_timer(tm, value_usec, interval_usec) ==
    IF value_usec \in 0..MaxUsec /\ interval_usec \in 0..MaxUsec
    THEN [timer |-> [armed |-> value_usec > 0, value |-> value_usec,
                     period |-> interval_usec],
          failed |-> FALSE]
    ELSE [timer |-> tm, failed |-> TRUE]

\* the timer after it has fired once
TimerFire(tm) ==
    IF tm.period > 0 THEN [tm EXCEPT !.value = tm.period] ELSE NoTimer

BitLen(n) == CHOOSE k \in 1..30 : 2^(k-1) <= n /\ n < 2^k

\* (long long)((float)i * f): i < 2^24 converts exactly; the product is
\* rounded to 24 significant bits, ties to even, and then truncated.  The
\* exact product i * f.m (44 bits) is kept in 12-bit limbs.
FloatMul(i, f) ==
    LET i1 == i \div 4096
        i0 == i % 4096
        m1 == f.m \div 4096
        m0 == f.m % 4096
        c0 == i0 * m0
        c1 == i1 * m0 + i0 * m1 + (c0 \div 4096)
        c2 == i1 * m1 + (c1 \div 4096)
        low == (c1 % 4096) * 4096 + (c0 % 4096)    \* product = c2 * 2^24 + low
    IN  IF c2 = 0 THEN low \div (2^f.s)
        ELSE LET k  == BitLen(c2)
                 q0 == c2 * 2^(24 - k) + (low \div 2^k)
                 r  == low % 2^k
                 h  == 2^(k - 1)
                 q  == IF r > h \/ (r = h /\ q0 % 2 = 1) THEN q0 + 1 ELSE q0
             IN  q \div 2^(f.s - k)

\* reset_timer past the is_regular test, with the product new_interval
\* computed: the two bounds, then set_timer
reset_timer_live(intv, tm, new_interval) ==
    IF new_interval < 10 \/ new_interval > Million
    THEN [exit |-> TRUE, interval |-> intv, timer |-> tm,
          failed |-> FALSE, computed |-> new_interval, rearm |-> FALSE]
    ELSE [exit |-> FALSE, interval |-> new_interval,
          timer |-> set_timer(tm, new_interval, new_interval).timer,
          failed |-> set_timer(tm, new_interval, new_interval).failed,
          computed |-> new_interval, rearm |-> TRUE]

\* a mutant of reset_timer: the is_regular test is missing
reset_timer_NoRegularTest(intv, f, reg, tm) ==
    reset_timer_live(intv, tm, FloatMul(intv, f))

\* reset_timer(interval, resize_factor) on a source of the given kind, with
\* the timer in state tm: [exit, interval, timer, failed, computed, rearm]
reset_timer(intv, f, reg, tm) ==
    IF reg
    THEN [exit |-> FALSE, interval |-> intv, timer |-> tm, failed |-> FALSE,
          computed |-> intv, rearm |-> FALSE]
    ELSE reset_timer_live(intv, tm, FloatMul(intv, f))

---------------------------------------------------------------------------
(* estimate_input_rate, lines 178-188, and read_one_second, line 200 *)

\* a mutant of estimate_result: the first, untimed byte is counted too
estimate_result_CountsFirst(sig, n) ==
    IF sig = 0 \/ n < 1 THEN [exit |-> TRUE, msg |-> "not enough input", interval |-> 0]
    ELSE IF n > 999999 THEN [exit |-> TRUE, msg |-> "rate too high", interval |-> 0]
    ELSE [exit |-> FALSE, msg |-> "", interval |-> Million \div (n + 1)]

\* the outcome of the estimation once its read loop has ended
estimate_result(sig, n) ==
    IF sig = 0 \/ n < 1 THEN [exit |-> TRUE, msg |-> "not enough input", interval |-> 0]
    ELSE IF n > 999999 THEN [exit |-> TRUE, msg |-> "rate too high", interval |-> 0]
    ELSE [exit |-> FALSE, msg |-> "", interval |-> Million \div n]

\* a mutant of prefill_count: the extra byte of the cushion is not read
prefill_count_NoCushion(intv) == Million \div intv

\* long long count = 1e06 / interval + 1, for interval > 0
prefill_count(intv) == (Million \div intv) + 1

\* the two assertions of read_one_second
prefill_asserts(intv) == intv > 0 /\ intv < Million

---------------------------------------------------------------------------
(* The source *)

HasByte == rd < avail
AtEOF == closed /\ rd = Len(input)

TestBytes == {0, 255}
ShortInputs == UNION {[1..n -> TestBytes] : n \in 0..MaxInput}
LongInput == [i \in 1..(DELAY_SIZE + LongExtra) |-> IF i % 3 = 0 THEN 255 ELSE 0]

Given(t) == [given |-> TRUE, text |-> t]
NoArg == [given |-> FALSE, text |-> << >>]
Args == {NoArg,
         Given(<<"9","9","9","9","9","9">>),
         Given(<<"9","5","2","3","8","1">>),
         Given(<<"9","0","0","0","0","0">>),
         Given(<<"5","0","0","0","0","0">>),
         Given(<<"1","0">>),
         Given(<<"5">>),
         Given(<<"1","2","a">>),
         Given(<<"a">>),
         Given(<<"0">>),
         Given(<<"-","5">>),
         Given(<<"1","0","0","0","0","0","0">>)}
LongArgs == {Given(<<"9","9","9","9","9","9">>)}
BacklogArg == Given(<<"9","7","5">>)

NoRescale == [kind |-> "none", prev |-> 0, computed |-> 0, ret |-> 0,
              exit |-> FALSE, rearm |-> FALSE, n |-> 0, bb |-> 0, after |-> 0]
NoEof == [seen |-> FALSE, K |-> 0, outLen |-> 0, pending |-> FALSE, ticks0 |-> 0,
          interval |-> 0, timer |-> NoTimer, rescN |-> 0, rd |-> 0]
NoBody == [run |-> FALSE, intr |-> FALSE, serviced |-> FALSE, bb0 |-> 0,
           mid |-> 0, cut |-> FALSE, drift |-> "none"]
NoEst == [done |-> FALSE, n |-> 0, sig |-> 0, first |-> 0, exit |-> FALSE,
          msg |-> ""]
NoCall == [fn |-> "none"]
NoRet == [done |-> FALSE]

InitProg ==
    /\ rd = 0 /\ rb = rb_create /\ out = << >> /\ pc = "main" /\ c = 0
    /\ interval = 0 /\ count = 0 /\ bytes_read = 0 /\ bytes_buffered = 0
    /\ received_signal = 0 /\ errno = "OK" /\ timer = NoTimer
    /\ status = "running" /\ usage = FALSE /\ ticks = 0
    /\ hist = [visited |-> {}, resc |-> NoRescale, eof |-> NoEof,
               est |-> NoEst, interval0 |-> 0, steady0 |-> 0, answered |-> 0,
               start |-> 0, coal |-> FALSE, body |-> NoBody]

\* the runs followed: every short input on both kinds of source; the long
\* input as a regular file and as a pipe already filled and closed by its
\* writer; and the long input in a filled pipe, read with an interval whose
\* prefill exceeds DELAY_SIZE, followed for more than DELAY_SIZE ticks while
\* the writer keeps the pipe open
Init ==
    /\ \/ /\ arg \in Args /\ regular \in BOOLEAN /\ input \in ShortInputs
          /\ avail = (IF regular THEN Len(input) ELSE 0)
          /\ closed = regular
          /\ limits = [ticks |-> MaxTicks, lost |-> MaxTicks, ends |-> TRUE]
       \/ /\ arg \in LongArgs /\ regular \in BOOLEAN /\ input = LongInput
          /\ avail = Len(input)
          /\ closed = TRUE
          /\ limits = [ticks |-> MaxTicks, lost |-> MaxTicks, ends |-> TRUE]
       \/ /\ arg = BacklogArg /\ regular = FALSE /\ input = LongInput
          /\ avail = Len(input)
          /\ closed = FALSE
          /\ limits = [ticks |-> DELAY_SIZE + LongExtra, lost |-> MaxLost,
                    ends |-> FALSE]
    /\ InitProg
    /\ u_call = NoCall /\ u_ret = NoRet

Running == status = "running"

\* a live source delivers its next byte
Arrive ==
    /\ Running /\ ~regular /\ avail < Len(input)
    /\ avail' = avail + 1
    /\ UNCHANGED <<arg, regular, input, closed, rd, rb, out, pc, c, interval,
                   count, bytes_read, bytes_buffered, received_signal, errno,
                   timer, status, usage, ticks, hist, u_call, u_ret, limits>>

\* a live source ends (in the runs followed up to that event)
Close ==
    /\ Running /\ ~closed /\ avail = Len(input) /\ limits.ends
    /\ closed' = TRUE
    /\ UNCHANGED <<arg, regular, input, avail, rd, rb, out, pc, c, interval,
                   count, bytes_read, bytes_buffered, received_signal, errno,
                   timer, status, usage, ticks, hist, u_call, u_ret, limits>>

Visit(h, phase) == [h EXCEPT !.visited = @ \cup {phase}]

---------------------------------------------------------------------------
(* main *)

\* main with an argument: parse_argument_for_interval, then the entry of
\* read_one_second (count, the two assertions).  The source does not define
\* NDEBUG, so a failed assertion aborts the process; count is computed before
\* the assertions (for interval = 0 the conversion of 1e06 / 0 is undefined)
\* but is not used before the abort, so it is left as it was in that case.
MainArg ==
    /\ Running /\ pc = "main" /\ arg.given
    /\ LET p == parse_argument_for_interval(arg.text)
       IN  /\ usage' = p.usage
           /\ interval' = p.rv
           /\ hist' = [Visit(hist, "PREFILL") EXCEPT !.interval0 = p.rv]
           /\ IF prefill_asserts(p.rv)
              THEN /\ count' = prefill_count(p.rv)
                   /\ pc' = "prefill"
                   /\ status' = status
              ELSE /\ count' = count
                   /\ pc' = "exited"
                   /\ status' = "abort"
    /\ UNCHANGED <<arg, regular, input, avail, closed, rd, rb, out, c,
                   bytes_read, bytes_buffered, received_signal, errno, timer,
                   ticks, u_call, u_ret, limits>>

\* a mutant of MainRegular: the is_regular test of main is missing and the
\* estimator is entered
MainRegular_Estimates ==
    /\ Running /\ pc = "main" /\ ~arg.given /\ regular
    /\ pc' = "est_first"
    /\ hist' = Visit(hist, "ESTIMATING")
    /\ UNCHANGED <<arg, regular, input, avail, closed, rd, rb, out, c, interval,
                   count, bytes_read, bytes_buffered, received_signal, errno,
                   timer, status, usage, ticks, u_call, u_ret, limits>>

\* main without an argument on a regular file
MainRegular ==
    /\ Running /\ pc = "main" /\ ~arg.given /\ regular
    /\ pc' = "exited" /\ status' = "exit1"
    /\ UNCHANGED <<arg, regular, input, avail, closed, rd, rb, out, c, interval,
                   count, bytes_read, bytes_buffered, received_signal, errno,
                   timer, usage, ticks, hist, u_call, u_ret, limits>>

\* main without an argument on a live source: estimate_input_rate is entered
MainEstimate ==
    /\ Running /\ pc = "main" /\ ~arg.given /\ ~regular
    /\ pc' = "est_first"
    /\ hist' = Visit(hist, "ESTIMATING")
    /\ UNCHANGED <<arg, regular, input, avail, closed, rd, rb, out, c, interval,
                   count, bytes_read, bytes_buffered, received_signal, errno,
                   timer, status, usage, ticks, u_call, u_ret, limits>>

---------------------------------------------------------------------------
(* read_one_second *)

\* one evaluation of the loop condition count-- > 0 && getchar() != EOF and,
\* when it holds, the push; getchar blocks while the source has nothing
PrefillStep ==
    /\ Running /\ pc = "prefill"
    /\ count <= 0 \/ HasByte \/ AtEOF
    /\ count' = count - 1
    /\ IF count > 0 /\ HasByte
       THEN /\ c' = input[rd + 1]
            /\ rd' = rd + 1
            /\ rb' = rb_xpush(rb, input[rd + 1])
            /\ pc' = "prefill"
       ELSE /\ c' = (IF count > 0 THEN EOF ELSE c)
            /\ rd' = rd
            /\ rb' = rb
            /\ pc' = "stream_start"
    /\ UNCHANGED <<arg, regular, input, avail, closed, out, interval,
                   bytes_read, bytes_buffered, received_signal, errno, timer,
                   status, usage, ticks, hist, u_call, u_ret, limits>>

---------------------------------------------------------------------------
(* estimate_input_rate *)

\* lines 169-173: the first, untimed byte, then the one-shot window
EstFirst ==
    /\ Running /\ pc = "est_first"
    /\ HasByte \/ AtEOF
    /\ IF HasByte
       THEN /\ c' = input[rd + 1] /\ rd' = rd + 1
            /\ rb' = rb_xpush(rb, input[rd + 1])
       ELSE /\ c' = EOF /\ rd' = rd /\ rb' = rb
    /\ timer' = set_timer(timer, 999999, 0).timer
    /\ errno' = "OK"
    /\ bytes_read' = 0
    /\ hist' = [hist EXCEPT !.est.first = Len(rb')]
    /\ pc' = "est_loop"
    /\ UNCHANGED <<arg, regular, input, avail, closed, out, interval, count,
                   bytes_buffered, received_signal, status, usage, ticks,
                   u_call, u_ret, limits>>

\* line 174-177: getchar returns a byte, which is counted and pushed
EstRead ==
    /\ Running /\ pc \in {"est_loop", "est_blocked"} /\ HasByte
    /\ c' = input[rd + 1] /\ rd' = rd + 1
    /\ bytes_read' = bytes_read + 1
    /\ rb' = rb_xpush(rb, input[rd + 1])
    /\ pc' = "est_loop"
    /\ UNCHANGED <<arg, regular, input, avail, closed, out, interval, count,
                   bytes_buffered, received_signal, errno, timer, status,
                   usage, ticks, hist, u_call, u_ret, limits>>

\* line 174: getchar returns EOF at the end of the stream
EstEOF ==
    /\ Running /\ pc \in {"est_loop", "est_blocked"} /\ ~HasByte /\ AtEOF
    /\ c' = EOF
    /\ pc' = "est_end"
    /\ UNCHANGED <<arg, regular, input, avail, closed, rd, rb, out, interval,
                   count, bytes_read, bytes_buffered, received_signal, errno,
                   timer, status, usage, ticks, hist, u_call, u_ret, limits>>

\* line 174: getchar finds nothing to read and blocks in read()
EstBlock ==
    /\ Running /\ pc = "est_loop" /\ ~HasByte /\ ~AtEOF
    /\ pc' = "est_blocked"
    /\ UNCHANGED <<arg, regular, input, avail, closed, rd, rb, out, c, interval,
                   count, bytes_read, bytes_buffered, received_signal, errno,
                   timer, status, usage, ticks, hist, u_call, u_ret, limits>>

\* lines 178-188, the return to main and the call of stream_data
EstEnd ==
    /\ Running /\ pc = "est_end"
    /\ LET r == estimate_result(received_signal, bytes_read)
       IN  /\ hist' = [hist EXCEPT !.est.done = TRUE, !.est.n = bytes_read,
                                   !.est.sig = received_signal,
                                   !.est.exit = r.exit, !.est.msg = r.msg,
                                   !.interval0 = r.interval]
           /\ IF r.exit
              THEN /\ pc' = "exited" /\ status' = "exit1"
                   /\ UNCHANGED <<interval, received_signal>>
              ELSE /\ pc' = "stream_start" /\ status' = status
                   /\ interval' = r.interval
                   /\ received_signal' = 0
    /\ UNCHANGED <<arg, regular, input, avail, closed, rd, rb, out, c, count,
                   bytes_read, bytes_buffered, errno, timer, usage, ticks,
                   u_call, u_ret, limits>>

---------------------------------------------------------------------------
(* stream_data: one pass of the loop body, as steps on a record of the      *)
(* values it reads and writes: [interval, rb, out, bb, timer, rs, errno,    *)
(* exit, resc]                                                             *)

\* what a call of reset_timer leaves in the record; kind names the call site
Rescaled(s, kind, r) ==
    [s EXCEPT !.interval = r.interval,
              !.timer = r.timer,
              !.exit = r.exit,
              !.errno = IF r.failed THEN "EINVAL" ELSE @,
              !.resc = [kind |-> kind, prev |-> s.interval,
                        computed |-> r.computed, ret |-> r.interval,
                        exit |-> r.exit, rearm |-> r.rearm,
                        n |-> s.resc.n + 1, bb |-> s.bb, after |-> s.bb]]

\* the counter as the call site of the last reset_timer leaves it
After(s) == [s EXCEPT !.resc.after = s.bb]

\* a mutant of Service: the flag stays set after a byte was emitted
Service_KeepsFlag(s, reg) ==
    IF s.rs = 0 THEN s
    ELSE LET p  == rb_pop(s.rb)
             s1 == [s EXCEPT !.bb = @ - 1, !.rb = p.rb]
         IN  IF p.val = EOF
             THEN LET s2 == Rescaled(s1, "underrun",
                                     reset_timer(s1.interval, F105, reg, s1.timer))
                  IN  IF s2.exit THEN s2
                      ELSE After([s2 EXCEPT !.rs = 0, !.errno = "OK"])
             ELSE [s1 EXCEPT !.out = Append(@, p.val), !.errno = "OK"]

\* a mutant of Service: the flag is cleared but nothing is popped
Service_ClearsOnly(s, reg) ==
    IF s.rs = 0 THEN s ELSE [s EXCEPT !.rs = 0, !.errno = "OK"]

\* lines 48-59: the pending notification is serviced
Service(s, reg) ==
    IF s.rs = 0 THEN s
    ELSE LET p  == rb_pop(s.rb)
             s1 == [s EXCEPT !.bb = @ - 1, !.rb = p.rb]
         IN  IF p.val = EOF
             THEN LET s2 == Rescaled(s1, "underrun",
                                     reset_timer(s1.interval, F105, reg, s1.timer))
                  IN  IF s2.exit THEN s2
                      ELSE After([s2 EXCEPT !.rs = 0, !.errno = "OK"])
             ELSE [s1 EXCEPT !.out = Append(@, p.val), !.rs = 0, !.errno = "OK"]

\* a mutant of PushByte: the test c != EOF is missing, and the EOF of an
\* interrupted read is pushed as the byte (unsigned char)EOF
PushByte_NoGuard(s, ch) ==
    IF s.exit THEN s
    ELSE [s EXCEPT !.bb = @ + 1, !.rb = rb_xpush(@, IF ch = EOF THEN 255 ELSE ch)]

\* lines 60-63: the byte just read is pushed
PushByte(s, ch) ==
    IF s.exit \/ ch = EOF THEN s
    ELSE [s EXCEPT !.bb = @ + 1, !.rb = rb_xpush(@, ch)]

\* a mutant of DriftHigh: bytes_buffered is not reset after the rescale
DriftHigh_NoReset(s, reg) ==
    IF s.exit \/ ~(s.bb > DELAY_SIZE) THEN s
    ELSE After(Rescaled(s, "high", reset_timer(s.interval, F095, reg, s.timer)))

\* lines 64-67: input outpaces output
DriftHigh(s, reg) ==
    IF s.exit \/ ~(s.bb > DELAY_SIZE) THEN s
    ELSE LET s1 == Rescaled(s, "high", reset_timer(s.interval, F095, reg, s.timer))
         IN  IF s1.exit THEN s1 ELSE After([s1 EXCEPT !.bb = 0])

\* a mutant of DriftLow: the interval is narrowed, as it is for positive drift
DriftLow_SpeedsUp(s, reg) ==
    IF s.exit \/ ~(s.bb < 0 - DELAY_SIZE) THEN s
    ELSE LET s1 == Rescaled(s, "low", reset_timer(s.interval, F095, reg, s.timer))
         IN  IF s1.exit THEN s1 ELSE After([s1 EXCEPT !.bb = 0])

\* lines 68-71: output outpaces input
DriftLow(s, reg) ==
    IF s.exit \/ ~(s.bb < 0 - DELAY_SIZE) THEN s
    ELSE LET s1 == Rescaled(s, "low", reset_timer(s.interval, F105, reg, s.timer))
         IN  IF s1.exit THEN s1 ELSE After([s1 EXCEPT !.bb = 0])

\* lines 47-72
LoopBody(s, ch, reg) == DriftLow(DriftHigh(PushByte(Service(s, reg), ch), reg), reg)

\* lines 43-45: the recurring timer is armed
StreamStart ==
    /\ Running /\ pc = "stream_start"
    /\ bytes_buffered' = 0
    /\ timer' = set_timer(timer, interval, interval).timer
    /\ errno' = "OK"
    /\ pc' = "stream_getchar"
    /\ hist' = [Visit(hist, "STEADY") EXCEPT !.steady0 = interval,
                                             !.start = ticks]
    /\ UNCHANGED <<arg, regular, input, avail, closed, rd, rb, out, c, interval,
                   count, bytes_read, received_signal, status, usage, ticks,
                   u_call, u_ret, limits>>

\* line 46: getchar returns a byte
StreamRead ==
    /\ Running /\ pc \in {"stream_getchar", "stream_blocked"} /\ HasByte
    /\ c' = input[rd + 1] /\ rd' = rd + 1
    /\ pc' = "stream_cond"
    /\ UNCHANGED <<arg, regular, input, avail, closed, rb, out, interval, count,
                   bytes_read, bytes_buffered, received_signal, errno, timer,
                   status, usage, ticks, hist, u_call, u_ret, limits>>

\* line 46: getchar returns EOF at the end of the stream
StreamEOF ==
    /\ Running /\ pc \in {"stream_getchar", "stream_blocked"}
    /\ ~HasByte /\ AtEOF
    /\ c' = EOF
    /\ pc' = "stream_cond"
    /\ UNCHANGED <<arg, regular, input, avail, closed, rd, rb, out, interval,
                   count, bytes_read, bytes_buffered, received_signal, errno,
                   timer, status, usage, ticks, hist, u_call, u_ret, limits>>

\* a mutant of LeavesLoop: an interrupted read is taken for the end of input
LeavesLoop_IgnoresErrno(ch, e) == ch = EOF

\* line 46: the loop is left exactly when getchar gave EOF and errno is not
\* EINTR
LeavesLoop(ch, e) == ch = EOF /\ e # "EINTR"

\* lines 46 and 74: the loop condition fails; the drain loop is entered
StreamLeave ==
    /\ Running /\ pc = "stream_cond" /\ LeavesLoop(c, errno)
    /\ pc' = "drain"
    /\ errno' = "OK"
    /\ hist' = [Visit(hist, "DRAINING") EXCEPT
                   !.eof = [seen |-> TRUE, K |-> Len(rb), outLen |-> Len(out),
                            pending |-> received_signal = 1,
                            ticks0 |-> ticks, interval |-> interval,
                            timer |-> timer, rescN |-> hist.resc.n,
                            rd |-> rd]]
    /\ UNCHANGED <<arg, regular, input, avail, closed, rd, rb, out, c, interval,
                   count, bytes_read, bytes_buffered, received_signal, timer,
                   status, usage, ticks, u_call, u_ret, limits>>

\* line 46: getchar finds nothing to read and blocks in read()
StreamBlock ==
    /\ Running /\ pc = "stream_getchar" /\ ~HasByte /\ ~AtEOF
    /\ pc' = "stream_blocked"
    /\ UNCHANGED <<arg, regular, input, avail, closed, rd, rb, out, c, interval,
                   count, bytes_read, bytes_buffered, received_signal, errno,
                   timer, status, usage, ticks, hist, u_call, u_ret, limits>>

\* lines 46-72: the loop condition holds; the body of the loop
StreamBody ==
    /\ Running /\ pc = "stream_cond" /\ ~LeavesLoop(c, errno)
    /\ LET s0 == [interval |-> interval, rb |-> rb, out |-> out,
                  bb |-> bytes_buffered, timer |-> timer,
                  rs |-> received_signal, errno |-> errno, exit |-> FALSE,
                  resc |-> hist.resc]
           m  == PushByte(Service(s0, regular), c)
           s  == LoopBody(s0, c, regular)
       IN  /\ interval' = s.interval
           /\ rb' = s.rb
           /\ out' = s.out
           /\ bytes_buffered' = s.bb
           /\ timer' = s.timer
           /\ received_signal' = s.rs
           /\ errno' = s.errno
           /\ hist' = [hist EXCEPT !.resc = s.resc,
                                   !.answered = @ + received_signal,
                                   !.body = [run |-> TRUE, intr |-> c = EOF,
                                             serviced |-> received_signal = 1,
                                             bb0 |-> bytes_buffered,
                                             mid |-> m.bb, cut |-> m.exit,
                                             drift |-> IF s.resc.n > m.resc.n
                                                       THEN s.resc.kind
                                                       ELSE "none"]]
           /\ IF s.exit
              THEN pc' = "exited" /\ status' = "exit1"
              ELSE pc' = "stream_getchar" /\ status' = status
    /\ UNCHANGED <<arg, regular, input, avail, closed, rd, c, count,
                   bytes_read, usage, ticks, u_call, u_ret, limits>>

---------------------------------------------------------------------------
(* SIGALRM *)

\* SIGALRM is delivered while the timer is armed; the run is followed for
\* limits.ticks deliveries, of which limits.lost may go unanswered
CanTick ==
    /\ Running /\ timer.armed
    /\ ticks < limits.ticks
    /\ ticks - hist.answered <= limits.lost

\* history: handle() ran in the read loop of stream_data while the flag of an
\* earlier delivery was still set
Coalesced(h) ==
    [h EXCEPT !.coal = @ \/ (received_signal = 1 /\ "STEADY" \in h.visited)]

\* handle() runs while the process is not blocked: only the flag is set
TickFlag ==
    /\ CanTick
    /\ \/ pc \in {"est_loop", "est_end", "stream_getchar", "stream_cond"}
       \/ pc \in {"est_blocked", "stream_blocked"} /\ (HasByte \/ AtEOF)
    /\ received_signal' = 1
    /\ timer' = TimerFire(timer)
    /\ ticks' = ticks + 1
    /\ hist' = Coalesced(hist)
    /\ UNCHANGED <<arg, regular, input, avail, closed, rd, rb, out, pc, c,
                   interval, count, bytes_read, bytes_buffered, errno, status,
                   usage, u_call, u_ret, limits>>

\* handle() runs while getchar is blocked in read(): read fails with EINTR
\* and getchar returns EOF
TickInterrupt ==
    /\ CanTick
    /\ pc \in {"est_blocked", "stream_blocked"} /\ ~HasByte /\ ~AtEOF
    /\ received_signal' = 1
    /\ errno' = "EINTR"
    /\ c' = EOF
    /\ pc' = (IF pc = "est_blocked" THEN "est_end" ELSE "stream_cond")
    /\ timer' = TimerFire(timer)
    /\ ticks' = ticks + 1
    /\ hist' = Coalesced(hist)
    /\ UNCHANGED <<arg, regular, input, avail, closed, rd, rb, out, interval,
                   count, bytes_read, bytes_buffered, status, usage,
                   u_call, u_ret, limits>>

---------------------------------------------------------------------------
(* stream_data, lines 73-78, and the return of main *)

\* a mutant of DrainPass: rb_pop is evaluated twice, once in the condition
\* and once for putchar
DrainPass_PopsTwice(q, o) ==
    LET p  == rb_pop(q)
        p2 == rb_pop(p.rb)
    IN  IF p.val = EOF THEN [rb |-> q, out |-> o, more |-> FALSE]
        ELSE [rb |-> p2.rb, more |-> TRUE,
              out |-> Append(o, IF p2.val = EOF THEN 255 ELSE p2.val)]

\* one pass of the drain loop: the queue, the output and whether it goes on
DrainPass(q, o) ==
    LET p == rb_pop(q)
    IN  IF p.val = EOF THEN [rb |-> q, out |-> o, more |-> FALSE]
        ELSE [rb |-> p.rb, out |-> Append(o, p.val), more |-> TRUE]

\* a mutant of DrainTick: the tick that finds the queue empty rescales, as it
\* does in the read loop
DrainTick_Rescales ==
    /\ CanTick /\ pc = "drain"
    /\ received_signal' = 1
    /\ errno' = "EINTR"
    /\ ticks' = ticks + 1
    /\ LET d == DrainPass(rb, out)
           r == reset_timer(interval, F105, regular, TimerFire(timer))
       IN  /\ rb' = d.rb
           /\ out' = d.out
           /\ c' = (IF d.more THEN Head(rb) ELSE EOF)
           /\ interval' = (IF d.more THEN interval ELSE r.interval)
           /\ timer' = (IF d.more THEN TimerFire(timer) ELSE r.timer)
           /\ IF d.more
              THEN pc' = "drain" /\ status' = status
              ELSE pc' = "exited" /\ status' = (IF r.exit THEN "exit1" ELSE "exit0")
    /\ hist' = [hist EXCEPT !.answered = @ + 1]
    /\ UNCHANGED <<arg, regular, input, avail, closed, rd, count,
                   bytes_read, bytes_buffered, usage, u_call, u_ret, limits>>

\* pause() is ended by SIGALRM: one pop, then putchar or the end of the run
DrainTick ==
    /\ CanTick /\ pc = "drain"
    /\ received_signal' = 1
    /\ errno' = "EINTR"
    /\ timer' = TimerFire(timer)
    /\ ticks' = ticks + 1
    /\ LET d == DrainPass(rb, out)
       IN  /\ rb' = d.rb
           /\ out' = d.out
           /\ c' = (IF d.more THEN Head(rb) ELSE EOF)
           /\ IF d.more
              THEN pc' = "drain" /\ status' = status
              ELSE pc' = "exited" /\ status' = "exit0"
    /\ hist' = [hist EXCEPT !.answered = @ + 1]
    /\ UNCHANGED <<arg, regular, input, avail, closed, rd, interval, count,
                   bytes_read, bytes_buffered, usage, u_call, u_ret, limits>>

\* SIGALRM arrives between two calls of pause(): only the flag is set
DrainMiss ==
    /\ CanTick /\ pc = "drain"
    /\ received_signal' = 1
    /\ timer' = TimerFire(timer)
    /\ ticks' = ticks + 1
    /\ UNCHANGED <<arg, regular, input, avail, closed, rd, rb, out, pc, c,
                   interval, count, bytes_read, bytes_buffered, errno, status,
                   usage, hist, u_call, u_ret, limits>>

---------------------------------------------------------------------------

Next ==
    \/ Arrive \/ Close
    \/ MainArg \/ MainRegular \/ MainEstimate
    \/ PrefillStep
    \/ EstFirst \/ EstRead \/ EstEOF \/ EstBlock \/ EstEnd
    \/ StreamStart \/ StreamRead \/ StreamEOF \/ StreamBlock
    \/ StreamBody \/ StreamLeave
    \/ TickFlag \/ TickInterrupt
    \/ DrainTick \/ DrainMiss

Spec == Init /\ [][Next]_vars

---------------------------------------------------------------------------
(* Function-level runs: reset_timer, the end of estimate_input_rate and     *)
(* parse_argument_for_interval applied to arguments the byte-level runs     *)
(* cannot reach within their bounds                                        *)

UnitIntervals == (1..40) \cup {100, 104, 1000, 333333, 500000, 900000, 952380,
                               952381, 952382, 999998, 999999, 1000000}
UnitCounts == (0..12) \cup {100000, 100001, 333333, 500000, 999998, 999999,
                            1000000, 1000001}
UnitCalls ==
    {[fn |-> "reset_timer", n |-> i, f |-> f, reg |-> r, sig |-> 0, text |-> << >>] :
        i \in UnitIntervals, f \in {F105, F095}, r \in BOOLEAN}
    \cup {[fn |-> "estimate", n |-> n, f |-> F105, reg |-> FALSE, sig |-> g, text |-> << >>] :
        n \in UnitCounts, g \in {0, 1}}
    \cup {[fn |-> "parse", n |-> 0, f |-> F105, reg |-> FALSE, sig |-> 0, text |-> a.text] :
        a \in Args \ {NoArg}}

InitFn ==
    /\ arg = NoArg /\ regular = FALSE /\ input = << >>
    /\ avail = 0 /\ closed = FALSE
    /\ limits = [ticks |-> 0, lost |-> 0, ends |-> FALSE]
    /\ InitProg
    /\ u_call \in UnitCalls
    /\ u_ret = NoRet

\* reset_timer(n, f) with the recurring timer armed at n
UnitResetTimer ==
    /\ u_call.fn = "reset_timer" /\ ~u_ret.done
    /\ u_ret' = [done |-> TRUE,
                 r |-> reset_timer(u_call.n, u_call.f, u_call.reg,
                                   set_timer(NoTimer, u_call.n, u_call.n).timer)]
    /\ UNCHANGED <<progVars, u_call>>

\* lines 178-188 of estimate_input_rate with bytes_read = n
UnitEstimate ==
    /\ u_call.fn = "estimate" /\ ~u_ret.done
    /\ u_ret' = [done |-> TRUE, r |-> estimate_result(u_call.sig, u_call.n)]
    /\ UNCHANGED <<progVars, u_call>>

\* parse_argument_for_interval(text)
UnitParse ==
    /\ u_call.fn = "parse" /\ ~u_ret.done
    /\ u_ret' = [done |-> TRUE, r |-> parse_argument_for_interval(u_call.text)]
    /\ UNCHANGED <<progVars, u_call>>

NextFn == UnitResetTimer \/ UnitEstimate \/ UnitParse

SpecFn == InitFn /\ [][NextFn]_vars

InitAll == Init \/ InitFn
NextAll == Next \/ NextFn

\* the byte-level runs and the function-level runs side by side
SpecAll == InitAll /\ [][NextAll]_vars

---------------------------------------------------------------------------
(* Properties *)

IsPrefix(a, b) == Len(a) <= Len(b) /\ SubSeq(b, 1, Len(a)) = a

\* the positions of stream_data: its read loop and its drain loop
LoopPcs == {"stream_getchar", "stream_blocked", "stream_cond"}
StreamPcs == LoopPcs \cup {"drain"}

InRange(v) == v >= 10 /\ v <= 999999

\* C1: in every reachable state, fatal terminations included, the bytes
\* written are a prefix of the bytes read from the input: nothing is emitted
\* out of order, twice, or without having been read.
C1_OutputPrefixOfInput ==
    /\ Len(out) <= rd
    /\ IsPrefix(out, SubSeq(input, 1, rd))

\* C1 witness: a run that ended fatally after emitting two different bytes
C1_Witness ==
    /\ status = "exit1" /\ Len(out) >= 2 /\ out[1] # out[2]
    /\ hist.resc.exit

\* C2: when the run completes normally (exit status 0), the bytes written
\* are exactly the bytes of the input, in input order.
C2_CompleteOutput == status = "exit0" => out = input

\* C2 witness: a normal completion of a three-byte input of which bytes were
\* prefilled, pushed and emitted in the read loop, and left over for the drain
C2_Witness ==
    /\ status = "exit0" /\ Len(input) >= 3 /\ input[1] # input[2]
    /\ arg.given /\ hist.eof.outLen > 0 /\ hist.eof.K > 0
    /\ rd > prefill_count(hist.interval0)

\* C3: once end-of-stream is detected with K bytes queued, the bytes emitted
\* since then plus the bytes still queued are K, at most one byte is emitted
\* per tick, the run cannot end fatally, and it ends with status 0 with the
\* queue empty (so exactly K emitted) on a tick after the K emitting ones;
\* a notification pending at end-of-stream changes none of this.
C3_DrainCompletion ==
    hist.eof.seen =>
        /\ (Len(out) - hist.eof.outLen) + Len(rb) = hist.eof.K
        /\ Len(out) - hist.eof.outLen <= ticks - hist.eof.ticks0
        /\ status \in {"running", "exit0"}
        /\ pc = (IF status = "running" THEN "drain" ELSE "exited")
        /\ status = "exit0" =>
              /\ rb = << >>
              /\ Len(out) - hist.eof.outLen = hist.eof.K
              /\ ticks - hist.eof.ticks0 >= hist.eof.K + 1

\* C3 witness: a drain of two bytes that began with a notification pending
C3_Witness ==
    /\ status = "exit0" /\ hist.eof.seen /\ hist.eof.K >= 2 /\ hist.eof.pending

\* C4 (the claim as stated): while the control loop of stream_data runs, the
\* interval is within [10, 999999].
C4_IntervalInRange == pc \in StreamPcs => InRange(interval)

\* C5 (the claim as stated): on a live source, a rescale whose computed
\* interval is outside [10, 999999] terminates the process with status 1 and
\* does not re-arm the timer.
C5_BoundEnforced ==
    (~regular /\ hist.resc.n > 0 /\ ~InRange(hist.resc.computed)) =>
        /\ status = "exit1"
        /\ hist.resc.exit
        /\ ~hist.resc.rearm

\* C6: on a regular source every rescale request returns the interval
\* unchanged, re-arms nothing and terminates nothing; throughout stream_data
\* the interval and the armed timer are the ones of the command line.
C6_RegularImmunity ==
    regular =>
        /\ hist.resc.n > 0 =>
              /\ hist.resc.ret = hist.resc.prev
              /\ ~hist.resc.exit
              /\ ~hist.resc.rearm
        /\ pc \in StreamPcs \/ hist.eof.seen =>
              /\ interval = hist.interval0
              /\ interval = parse_argument_for_interval(arg.text).rv
              /\ timer = [armed |-> TRUE, value |-> interval, period |-> interval]
              /\ status \in {"running", "exit0"}

\* C6 witness: a rescale was requested on a regular source
C6_Witness ==
    /\ regular /\ hist.resc.n > 0 /\ hist.resc.kind = "high"
    /\ pc \in StreamPcs /\ interval = 999999

\* q = floor(a / n)
IsFloorDiv(q, a, n) == q * n <= a /\ a < (q + 1) * n

\* the outcome the claim gives for n counted bytes and notification flag sig
C7_Outcome(sig, n, exited, msg, intv) ==
    IF sig = 0 \/ n < 1 THEN exited /\ msg = "not enough input"
    ELSE IF n > 999999 THEN exited /\ msg = "rate too high"
    ELSE ~exited /\ IsFloorDiv(intv, 1000000, n)

\* C7: the estimator counts every byte but the first; it fails with "not
\* enough input" when the notification never arrived or n < 1, with "rate too
\* high" when n > 999999, and otherwise returns floor(1000000 / n).
C7_EstimatorOutcome ==
    /\ pc \in {"est_loop", "est_blocked", "est_end"} =>
          /\ Len(rb) = rd
          /\ hist.est.first = (IF rd > 0 THEN 1 ELSE 0)
          /\ bytes_read = rd - hist.est.first
    /\ hist.est.done =>
          /\ C7_Outcome(hist.est.sig, hist.est.n, hist.est.exit,
                        hist.est.msg, hist.interval0)
          /\ hist.est.exit => status = "exit1" /\ pc = "exited" /\ out = << >>
          /\ (~hist.est.exit /\ pc = "stream_start") =>
                interval = hist.interval0 /\ status = "running"
          /\ "STEADY" \in hist.visited => hist.steady0 = hist.interval0
    /\ u_call.fn = "estimate" /\ u_ret.done =>
          C7_Outcome(u_call.sig, u_call.n, u_ret.r.exit, u_ret.r.msg,
                     u_ret.r.interval)

\* C7 witness: 500000 bytes counted in the window give an interval of 2
C7_Witness ==
    /\ u_call.fn = "estimate" /\ u_call.n = 500000 /\ u_call.sig = 1
    /\ u_ret.done /\ ~u_ret.r.exit /\ u_ret.r.interval = 2

\* C8 (the claim as stated): after an underrun on a live source that did not
\* terminate the process, the interval returned and armed is the previous
\* one times 1.05, rounded to the nearest integer or rounded up.
C8_UnderrunRounding ==
    (~regular /\ hist.resc.kind = "underrun" /\ ~hist.resc.exit) =>
        hist.resc.ret \in {(hist.resc.prev * 105 + 50) \div 100,
                           (hist.resc.prev * 105 + 99) \div 100}

\* the argument is written as a decimal integer in (0, 999999]
DecimalDigits == {"0", "1", "2", "3", "4", "5", "6", "7", "8", "9"}
ValidArg(t) ==
    /\ Len(t) \in 1..6
    /\ \A i \in 1..Len(t) : t[i] \in DecimalDigits
    /\ \E i \in 1..Len(t) : t[i] # "0"

\* C9 (the claim as stated): an argument that is not an integer in
\* (0, 999999] terminates the process with a non-zero status before any byte
\* is read, buffered or emitted.
C9_InvalidArgFatal ==
    (arg.given /\ ~ValidArg(arg.text) /\ pc # "main") =>
        /\ status \in {"exit1", "abort"}
        /\ rd = 0 /\ rb = << >> /\ out = << >>
        /\ "STEADY" \notin hist.visited

\* C10: without an argument a regular source ends the run with status 1
\* before anything is read, armed or written; without an argument a live
\* source leads to the estimator and never to read_one_second; with an
\* argument the run goes to read_one_second and never to the estimator.
C10_StartupDispatch ==
    /\ pc = "main" => rd = 0 /\ out = << >> /\ ~timer.armed /\ hist.visited = {}
    /\ (~arg.given /\ regular /\ pc # "main") =>
          /\ status = "exit1" /\ pc = "exited"
          /\ rd = 0 /\ rb = << >> /\ out = << >>
          /\ ~timer.armed /\ ticks = 0 /\ hist.visited = {}
    /\ (~arg.given /\ ~regular /\ pc # "main" /\ u_call.fn = "none") =>
          /\ "ESTIMATING" \in hist.visited /\ "PREFILL" \notin hist.visited
          /\ pc # "prefill" /\ count = 0
    /\ (arg.given /\ pc # "main") =>
          /\ "PREFILL" \in hist.visited /\ "ESTIMATING" \notin hist.visited
          /\ pc \notin {"est_first", "est_loop", "est_blocked", "est_end"}
          /\ ~hist.est.done

\* C10 witness: no argument, a non-empty regular file, status 1
C10_Witness ==
    /\ ~arg.given /\ regular /\ Len(input) > 0
    /\ status = "exit1" /\ pc = "exited"

\* C11 (the claim as stated): in every state from which the drain loop is
\* entered, and while it runs, a recurring timer is armed with a valid
\* non-zero period, so that the ticks it waits for keep coming.
C11_TimerArmedInDraining ==
    pc = "drain" => timer.armed /\ timer.period \in 1..999999

\* C12 (the claim as stated): bytes_buffered is zero immediately after every
\* rescale that returns, whichever condition triggered it: positive drift,
\* negative drift or an underrun.
C12_ZeroAfterEveryRescale ==
    (hist.resc.n > 0 /\ ~hist.resc.exit) => hist.resc.after = 0

\* C13: a rescale for positive drift is made with bytes_buffered above 1024
\* and multiplies the interval by 0.95; a rescale for negative drift is made
\* with bytes_buffered below -1024 and multiplies it by 1.05; both reset the
\* counter to 0; a pass of the loop body makes a drift rescale exactly when
\* the counter is outside [-1024, 1024] after the push.
C13_DriftFeedback ==
    /\ hist.resc.kind = "high" =>
          /\ hist.resc.bb > 1024
          /\ ~hist.resc.exit => hist.resc.after = 0
          /\ ~regular =>
                /\ 95 * hist.resc.prev - 110 <= 100 * hist.resc.computed
                /\ 100 * hist.resc.computed <= 95 * hist.resc.prev + 10
                /\ hist.resc.computed < hist.resc.prev
    /\ hist.resc.kind = "low" =>
          /\ hist.resc.bb < 0 - 1024
          /\ ~hist.resc.exit => hist.resc.after = 0
          /\ ~regular =>
                /\ 105 * hist.resc.prev - 110 <= 100 * hist.resc.computed
                /\ 100 * hist.resc.computed <= 105 * hist.resc.prev + 10
                /\ hist.resc.computed >= hist.resc.prev
    /\ (hist.body.run /\ ~hist.body.cut) =>
          hist.body.drift = (IF hist.body.mid > 1024 THEN "high"
                             ELSE IF hist.body.mid < 0 - 1024 THEN "low"
                             ELSE "none")

\* C13 witness: on a live source the counter fell below -1024 and the
\* interval was widened; the loop is back at its read with the counter at 0
C13_Witness ==
    /\ ~regular /\ hist.resc.kind = "low" /\ hist.body.drift = "low"
    /\ hist.resc.ret > hist.resc.prev
    /\ interval = hist.resc.ret
    /\ bytes_buffered = 0 /\ pc = "stream_getchar"

\* C14: the pass of the loop that follows an interrupted read services the
\* notification (one pop, then the byte is emitted or the underrun rescaled,
\* then the flag is cleared) and returns to the read; it does not leave the
\* loop, reads nothing and pushes nothing.
C14_ServiceBeforeRead ==
    [][(pc = "stream_cond" /\ c = EOF /\ errno = "EINTR" /\ pc' # pc) =>
          /\ received_signal = 1
          /\ pc' \in {"stream_getchar", "exited"}
          /\ pc' = "exited" => status' = "exit1" /\ hist'.resc.exit
          /\ pc' = "stream_getchar" => received_signal' = 0
          /\ rd' = rd
          /\ IF rb # << >>
             THEN rb' = Tail(rb) /\ out' = Append(out, Head(rb))
             ELSE rb' = rb /\ out' = out /\ hist'.resc.n > hist.resc.n]_vars

\* C14 witness: a pass of the loop that followed an interrupted read has
\* emitted a byte and the loop is at its read again
C14_Witness ==
    /\ hist.body.run /\ hist.body.intr /\ hist.body.serviced
    /\ pc = "stream_getchar" /\ out # << >> /\ received_signal = 0

\* C15: the bytes emitted never outnumber the notifications delivered since
\* the recurring timer was armed; no step emits or pops more than one byte,
\* and a step that emits has a notification set or delivers one.
C15_OnePerTick ==
    /\ [](Len(out) <= ticks - hist.start)
    /\ [][/\ Len(out') <= Len(out) + 1
          /\ Len(rb') >= Len(rb) - 1
          /\ Len(out') > Len(out) =>
                received_signal = 1 \/ ticks' = ticks + 1]_vars

\* C15 witness: a second notification was delivered before the flag of the
\* first was serviced, and fewer bytes than notifications have been emitted
C15_Witness ==
    /\ hist.coal /\ out # << >>
    /\ Len(out) < ticks - hist.start
    /\ hist.body.serviced /\ received_signal = 0

\* C16 (the claim as stated): once the notification of the window has been
\* delivered, the estimator reads and counts no further byte.
C16_StopsAtExpiry ==
    [][(pc \in {"est_loop", "est_blocked", "est_end"} /\ received_signal = 1) =>
          (rd' = rd /\ bytes_read' = bytes_read)]_vars

Min(a, b) == IF a < b THEN a ELSE b

\* C17: with the interval given, read_one_second reads and pushes, in order,
\* min(floor(1000000 / interval) + 1, length of the input) bytes; until the
\* recurring timer is armed no timer runs and nothing is emitted.
C17_Prefill ==
    /\ pc = "prefill" =>
          /\ ~timer.armed /\ ticks = 0 /\ out = << >>
          /\ rb = SubSeq(input, 1, rd)
          /\ rd <= (1000000 \div interval) + 1
    /\ (arg.given /\ pc = "stream_start") =>
          /\ rd = Min((1000000 \div interval) + 1, Len(input))
          /\ rb = SubSeq(input, 1, rd)
          /\ ~timer.armed /\ ticks = 0 /\ out = << >>

\* C17 witness: interval 999999 on a source with three bytes: two are read
C17_Witness ==
    /\ arg.given /\ pc = "stream_start" /\ interval = 999999
    /\ Len(input) = 3 /\ rd = 2 /\ Len(rb) = 2

\* C18: from the end of the read loop on, the interval, the timer, the number
\* of rescales and the read position stay as they were when the loop was
\* left, nothing is pushed, and the process does not terminate fatally.
C18_DrainingFrame ==
    hist.eof.seen =>
        /\ interval = hist.eof.interval
        /\ timer = hist.eof.timer
        /\ hist.resc.n = hist.eof.rescN
        /\ rd = hist.eof.rd
        /\ Len(rb) + Len(out) = hist.eof.K + hist.eof.outLen
        /\ pc \in {"drain", "exited"}
        /\ status \in {"running", "exit0"}

\* C18 witness: a live source whose interval was rescaled in the read loop
\* has drained a non-empty queue and exited with status 0
C18_Witness ==
    /\ hist.eof.seen /\ status = "exit0" /\ ~regular
    /\ hist.eof.rescN > 0 /\ hist.eof.K > 0
    /\ interval # hist.steady0

\* C19 (the claim as stated): on a live source every rescale that returns
\* moves the interval strictly in the direction of its factor: larger for
\* 1.05, smaller for 0.95.
C19_StrictDirection ==
    /\ (u_call.fn = "reset_timer" /\ u_ret.done /\ ~u_call.reg /\ ~u_ret.r.exit) =>
          IF u_call.f = F105 THEN u_ret.r.interval > u_call.n
                             ELSE u_ret.r.interval < u_call.n
    /\ (~regular /\ hist.resc.n > 0 /\ ~hist.resc.exit) =>
          IF hist.resc.kind = "high" THEN hist.resc.ret < hist.resc.prev
                                     ELSE hist.resc.ret > hist.resc.prev

\* C20: a pass of the loop body changes bytes_buffered by -1 for a serviced
\* notification and by +1 for a pushed byte, then a drift rescale resets it
\* to 0; whenever the loop is at its read, bytes_buffered is within
\* [-1024, 1024], on regular and on live sources.
C20_DriftBounded ==
    /\ pc \in {"stream_getchar", "stream_blocked"} =>
          bytes_buffered >= 0 - 1024 /\ bytes_buffered <= 1024
    /\ (hist.body.run /\ ~hist.body.cut) =>
          /\ hist.body.mid = hist.body.bb0
                             - (IF hist.body.serviced THEN 1 ELSE 0)
                             + (IF hist.body.intr THEN 0 ELSE 1)
          /\ bytes_buffered = (IF hist.body.drift # "none" /\ status # "exit1"
                               THEN 0 ELSE hist.body.mid)

\* C20 witness: on a regular source the counter passed 1024 and was reset
\* although the rescale changed nothing
C20_Witness ==
    /\ regular /\ hist.body.run /\ hist.body.drift = "high"
    /\ hist.body.mid = 1025 /\ bytes_buffered = 0
    /\ interval = hist.steady0 /\ pc = "stream_getchar"

=============================================================================
